---- MODULE Spec2Model ----
(***************************************************************************)
(* WAbizSender: the assignment-and-reporting run of data/distribution.py.  *)
(*                                                                         *)
(* The orders sheet and the "Stakeholder Report" sheet are the persistent  *)
(* state; one run of distribute_and_report() is a sequence of steps, each  *)
(* step one phase of the function (settings, authentication, read, assign, *)
(* batch write, aggregation, section lookup, report write).                *)
(*                                                                         *)
(* A cell of a sheet is a sequence of tokens: <<>> is the empty string,    *)
(* the token " " is white space, every other token is a run of             *)
(* non-blank text.  A line of the report is a cell too.                     *)
(***************************************************************************)
EXTENDS Integers, Sequences, FiniteSets, TLC

(* ------------------------------ bounds --------------------------------- *)

\* number of data rows of the orders sheet
NumRows == 3
\* longest roster the settings file may hold
MaxRoster == 2
\* number of distinct calendar days a run can happen on
NumDates == 2
\* the number of Sheets API calls that fail in a run with failures
MaxFaults == 1
\* number of successive runs of the program that are explored
MaxRuns == 3
\* the most data rows, and the most cells of a row, of a raw table
MaxRawRows == 2
MaxWidth == 3
\* the rows of column A of a report sheet that somebody edited
MaxLog == 3

(* ------------------------- program constants --------------------------- *)

HEADER_ROW_INDEX == 1
DATA_START_ROW_INDEX == 2

CALL_PRIORITIES ==
    [p \in 1..4 |->
        CASE p = 1 -> <<"NDR">>
          [] p = 2 -> <<"Confirmation Pending", "Fresh">>
          [] p = 3 -> <<"Call didn't Pick", "Follow up">>
          [] p = 4 -> <<"Abandoned", "Number invalid/fake order">>]

STATUS_TO_REPORT_CATEGORY ==
    [s \in {"Fresh", "Confirmation Pending", "Abandoned",
            "Number invalid/fake order", "Call didn't Pick", "Follow up", "NDR"} |->
        CASE s = "Fresh" -> "Fresh"
          [] s = "Confirmation Pending" -> "Fresh"
          [] s = "Abandoned" -> "Abandoned"
          [] s = "Number invalid/fake order" -> "Invalid/Fake"
          [] s = "Call didn't Pick" -> "CNP"
          [] s = "Follow up" -> "Follow up"
          [] s = "NDR" -> "NDR"]

\* the order in which the categories are rendered and summed
report_category_order ==
    <<"Fresh", "Abandoned", "Invalid/Fake", "CNP", "Follow up", "NDR">>

\* the keys of one stakeholder's entry of report_counts
CountKeys == {"Total", "Fresh", "Abandoned", "Invalid/Fake", "CNP", "Follow up", "NDR"}

(* ------------------------------ helpers -------------------------------- *)

Range(f) == {f[i] : i \in DOMAIN f}

Max(a, b) == IF a >= b THEN a ELSE b

RECURSIVE SumSeq(_)
SumSeq(s) == IF s = <<>> THEN 0 ELSE Head(s) + SumSeq(Tail(s))

(* ------------------------------- cells --------------------------------- *)

EmptyCell == <<>>
WS == " "

\* str.strip(): leading and trailing white space removed
RECURSIVE LStrip(_)
LStrip(c) == IF c # <<>> /\ Head(c) = WS THEN LStrip(Tail(c)) ELSE c

RECURSIVE RStrip(_)
RStrip(c) ==
    IF c # <<>> /\ c[Len(c)] = WS THEN RStrip(SubSeq(c, 1, Len(c) - 1)) ELSE c

Strip(c) == RStrip(LStrip(c))

\* the cell holding exactly the text t
Text(t) == <<t>>

\* str.startswith
StartsWith(c, prefix) ==
    Len(c) >= Len(prefix) /\ SubSeq(c, 1, Len(prefix)) = prefix

\* datetime.date(d).strftime("%d-%b-%Y"): one text per calendar day
strftime(d) == ToString(d)

\* f"{n}"
Str(n) == ToString(n)

(* --------------------------- the orders sheet -------------------------- *)

\* The columns 'Call-status', 'Stakeholder', 'Date', 'Date 2', 'Date 3' of a
\* data row.  Data row i (1-based) is row i + DATA_START_ROW_INDEX of the sheet.
Row(cs, st, d1, d2, d3) ==
    [call_status |-> cs, stakeholder |-> st, date_1 |-> d1, date_2 |-> d2, date_3 |-> d3]

\* (mutant) the rows are numbered by their 0-based index in the raw table
NormalizeZeroBased(vals) ==
    [i \in 1..Len(vals) |->
        [call_status |-> Strip(vals[i].call_status),
         stakeholder |-> Strip(vals[i].stakeholder),
         date_1 |-> Strip(vals[i].date_1),
         date_2 |-> Strip(vals[i].date_2),
         date_3 |-> Strip(vals[i].date_3),
         original_row_index |-> DATA_START_ROW_INDEX + i - 1]]

\* padded_data_rows and the DataFrame built from them: every cell stripped,
\* and the 1-based sheet row of each data row attached
Normalize(vals) ==
    [i \in 1..Len(vals) |->
        [call_status |-> Strip(vals[i].call_status),
         stakeholder |-> Strip(vals[i].stakeholder),
         date_1 |-> Strip(vals[i].date_1),
         date_2 |-> Strip(vals[i].date_2),
         date_3 |-> Strip(vals[i].date_3),
         original_row_index |-> DATA_START_ROW_INDEX + i]]

\* [status for priority_list in CALL_PRIORITIES.values() for status in priority_list]
all_priority_statuses ==
    UNION {Range(CALL_PRIORITIES[p]) : p \in DOMAIN CALL_PRIORITIES}

\* df['Call-status'].isin(all_priority_statuses), for one cell
IsPriorityStatus(cell) == \E s \in all_priority_statuses : cell = Text(s)

\* (mutant) every row is processed
FilteredIndicesAll(frame) == [i \in 1..Len(frame) |-> i]

\* rows_to_process_df.index.tolist(): the positions of the eligible rows of
\* frame, in row order (1-based here, 0-based in pandas)
RECURSIVE FilterFrom(_, _)
FilterFrom(frame, i) ==
    IF i > Len(frame) THEN <<>>
    ELSE (IF IsPriorityStatus(frame[i].call_status) THEN <<i>> ELSE <<>>)
         \o FilterFrom(frame, i + 1)

FilteredIndices(frame) == FilterFrom(frame, 1)

\* (mutant) the rotation starts one name too late
AssignedStakeholderShifted(roster, k) == roster[(k % Len(roster)) + 1]

\* assigned_stakeholders[k] for the k-th (1-based) filtered row
AssignedStakeholder(roster, k) == roster[((k - 1) % Len(roster)) + 1]

\* df.loc[filtered_indices, 'Stakeholder'] = assigned_stakeholders
AssignStakeholders(frame, fi, roster) ==
    [i \in 1..Len(frame) |->
        IF \E k \in 1..Len(fi) : fi[k] = i
        THEN LET k == CHOOSE k \in 1..Len(fi) : fi[k] = i
             IN  [frame[i] EXCEPT !.stakeholder = Text(AssignedStakeholder(roster, k))]
        ELSE frame[i]]

\* (mutant) every eligible row gets today's date in its first date column
ApplyFirstDate(row, date_str) == [row EXCEPT !.date_1 = Text(date_str)]

\* (mutant) a fourth attempt replaces the third date
ApplyAttemptDatesRolling(row, date_str) ==
    IF Strip(row.call_status) = Text("Call didn't Pick")
    THEN IF Strip(row.date_1) = EmptyCell THEN [row EXCEPT !.date_1 = Text(date_str)]
         ELSE IF Strip(row.date_2) = EmptyCell THEN [row EXCEPT !.date_2 = Text(date_str)]
         ELSE [row EXCEPT !.date_3 = Text(date_str)]
    ELSE [row EXCEPT !.date_1 = Text(date_str)]

\* (mutant) another status starts the attempts again
ApplyAttemptDatesClearing(row, date_str) ==
    IF Strip(row.call_status) = Text("Call didn't Pick")
    THEN IF Strip(row.date_1) = EmptyCell THEN [row EXCEPT !.date_1 = Text(date_str)]
         ELSE IF Strip(row.date_2) = EmptyCell THEN [row EXCEPT !.date_2 = Text(date_str)]
         ELSE IF Strip(row.date_3) = EmptyCell THEN [row EXCEPT !.date_3 = Text(date_str)]
         ELSE row
    ELSE [row EXCEPT !.date_1 = Text(date_str), !.date_2 = EmptyCell, !.date_3 = EmptyCell]

\* (mutant) another status dates the order only when it has no date yet
ApplyAttemptDatesKeepFirst(row, date_str) ==
    IF Strip(row.date_1) = EmptyCell THEN [row EXCEPT !.date_1 = Text(date_str)]
    ELSE IF Strip(row.call_status) # Text("Call didn't Pick") THEN row
    ELSE IF Strip(row.date_2) = EmptyCell THEN [row EXCEPT !.date_2 = Text(date_str)]
    ELSE IF Strip(row.date_3) = EmptyCell THEN [row EXCEPT !.date_3 = Text(date_str)]
    ELSE row

\* the date logic for one filtered row
ApplyAttemptDates(row, date_str) ==
    IF Strip(row.call_status) = Text("Call didn't Pick")
    THEN IF Strip(row.date_1) = EmptyCell THEN [row EXCEPT !.date_1 = Text(date_str)]
         ELSE IF Strip(row.date_2) = EmptyCell THEN [row EXCEPT !.date_2 = Text(date_str)]
         ELSE IF Strip(row.date_3) = EmptyCell THEN [row EXCEPT !.date_3 = Text(date_str)]
         ELSE row
    ELSE [row EXCEPT !.date_1 = Text(date_str)]

\* the date loop over filtered_indices
ApplyDates(frame, fi, date_str) ==
    [i \in 1..Len(frame) |->
        IF i \in Range(fi) THEN ApplyAttemptDates(frame[i], date_str) ELSE frame[i]]

\* values().batchUpdate: for every filtered row, the four target cells of the
\* sheet row original_row_index take the values of the DataFrame row
BatchUpdate(sheet, frame, fi) ==
    [r \in 1..Len(sheet) |->
        IF \E k \in 1..Len(fi) : frame[fi[k]].original_row_index = r + DATA_START_ROW_INDEX
        THEN LET k == CHOOSE k \in 1..Len(fi) :
                        frame[fi[k]].original_row_index = r + DATA_START_ROW_INDEX
                 src == frame[fi[k]]
             IN  [sheet[r] EXCEPT !.stakeholder = src.stakeholder,
                                  !.date_1 = src.date_1,
                                  !.date_2 = src.date_2,
                                  !.date_3 = src.date_3]
        ELSE sheet[r]]

(* ---------------------------- the aggregate ---------------------------- *)

NoCounts == [k \in CountKeys |-> 0]

\* report_counts as initialised: one all-zero entry per roster name
InitCounts(roster) == [s \in Range(roster) |-> NoCounts]

\* (mutant) 'Follow up' has no report category
CategoryOfNoFollowUp(cell) ==
    IF \E s \in DOMAIN STATUS_TO_REPORT_CATEGORY \ {"Follow up"} : cell = Text(s)
    THEN STATUS_TO_REPORT_CATEGORY[CHOOSE s \in DOMAIN STATUS_TO_REPORT_CATEGORY : cell = Text(s)]
    ELSE ""

\* (mutant) 'Number invalid/fake order' is still reported as 'Abandoned'
CategoryOfMerged(cell) ==
    IF \E s \in DOMAIN STATUS_TO_REPORT_CATEGORY : cell = Text(s)
    THEN LET s == CHOOSE s \in DOMAIN STATUS_TO_REPORT_CATEGORY : cell = Text(s)
         IN  IF s = "Number invalid/fake order" THEN "Abandoned"
             ELSE STATUS_TO_REPORT_CATEGORY[s]
    ELSE ""

\* STATUS_TO_REPORT_CATEGORY.get(call_status): a category, or "" for None
CategoryOf(cell) ==
    IF \E s \in DOMAIN STATUS_TO_REPORT_CATEGORY : cell = Text(s)
    THEN STATUS_TO_REPORT_CATEGORY[CHOOSE s \in DOMAIN STATUS_TO_REPORT_CATEGORY : cell = Text(s)]
    ELSE ""

\* the counting loop over rows_to_process_df, from its k-th row on
RECURSIVE CountFrom(_, _, _, _)
CountFrom(counts, frame, fi, k) ==
    IF k > Len(fi) THEN counts
    ELSE LET cell == frame[fi[k]].stakeholder
             cat == CategoryOf(Strip(frame[fi[k]].call_status))
             next ==
                IF \E s \in DOMAIN counts : cell = Text(s)
                THEN LET s == CHOOSE s \in DOMAIN counts : cell = Text(s)
                     IN  IF cat # "" THEN [counts EXCEPT ![s][cat] = @ + 1] ELSE counts
                ELSE counts
         IN  CountFrom(next, frame, fi, k + 1)

\* (mutant) the total leaves 'Invalid/Fake' out
CategorySumWithoutInvalid(c) ==
    c["Fresh"] + c["Abandoned"] + c["CNP"] + c["Follow up"] + c["NDR"]

\* total_assigned_this_run: the sum over report_category_order
CategorySum(c) == SumSeq([j \in DOMAIN report_category_order |-> c[report_category_order[j]]])

\* report_counts once the formatting loop has stored every "Total"
WithTotals(counts) ==
    [s \in DOMAIN counts |-> [counts[s] EXCEPT !["Total"] = CategorySum(counts[s])]]

ReportCounts(frame, fi, roster) == WithTotals(CountFrom(InitCounts(roster), frame, fi, 1))

\* (mutant) the keys come out last first
KeysReversed(roster, seen) == [j \in 1..Len(roster) |-> roster[Len(roster) + 1 - j]]

\* the keys of report_counts in insertion order: the roster without repeats
RECURSIVE Keys(_, _)
Keys(roster, seen) ==
    IF roster = <<>> THEN <<>>
    ELSE IF Head(roster) \in seen THEN Keys(Tail(roster), seen)
    ELSE <<Head(roster)>> \o Keys(Tail(roster), seen \cup {Head(roster)})

\* stakeholder_report: the list the function returns
StakeholderReport(counts, roster) ==
    LET ks == Keys(roster, {})
    IN  [j \in 1..Len(ks) |->
            [name |-> ks[j],
             total |-> counts[ks[j]]["Total"],
             fresh |-> counts[ks[j]]["Fresh"],
             abandoned |-> counts[ks[j]]["Abandoned"],
             invalid_fake |-> counts[ks[j]]["Invalid/Fake"],
             cnp |-> counts[ks[j]]["CNP"],
             follow_up |-> counts[ks[j]]["Follow up"],
             ndr |-> counts[ks[j]]["NDR"]]]

(* --------------------------- the report sheet -------------------------- *)

\* the generic prefix of a start marker
any_report_start_pattern == <<"--- Stakeholder Report for Assignments on ">>

\* f"--- Stakeholder Report for Assignments on {date_str} ---"
StartTitle(date_str) == any_report_start_pattern \o <<date_str, " ---">>

\* '--- End of Report for ' + date_str + ' ---'
EndTitle(date_str) == <<"--- End of Report for ", date_str, " ---">>

\* (mutant) no blank line closes the block
StakeholderBlockTight(counts, s) ==
    <<  <<"Calls assigned ", s>>,
        <<"- Total Calls This Run - ", Str(counts[s]["Total"])>> >>
    \o [j \in DOMAIN report_category_order |->
            <<"- ", report_category_order[j], "- ", Str(counts[s][report_category_order[j]])>>]

\* the block of one stakeholder
StakeholderBlock(counts, s) ==
    <<  <<"Calls assigned ", s>>,
        <<"- Total Calls This Run - ", Str(counts[s]["Total"])>> >>
    \o [j \in DOMAIN report_category_order |->
            <<"- ", report_category_order[j], "- ", Str(counts[s][report_category_order[j]])>>]
    \o << EmptyCell >>

RECURSIVE Blocks(_, _)
Blocks(counts, roster) ==
    IF roster = <<>> THEN <<>>
    ELSE StakeholderBlock(counts, Head(roster)) \o Blocks(counts, Tail(roster))

\* formatted_report_values: the lines of the section, one cell each
FormatReport(counts, roster, date_str) ==
    << StartTitle(date_str), EmptyCell >> \o Blocks(counts, roster) \o << EndTitle(date_str) >>

\* values().get of column A: the rows up to the last one that is not empty
RECURSIVE TrimRows(_)
TrimRows(rows) ==
    IF rows # <<>> /\ rows[Len(rows)] = EmptyCell
    THEN TrimRows(SubSeq(rows, 1, Len(rows) - 1))
    ELSE rows

\* values().clear of rows first..last
ClearRows(rows, first, last) ==
    TrimRows([i \in 1..Len(rows) |-> IF first <= i /\ i <= last THEN EmptyCell ELSE rows[i]])

\* values().update at row first: the cells first .. first + len(lines) - 1 take
\* the lines, whatever they held
UpdateRows(rows, first, lines) ==
    TrimRows([i \in 1..Max(Len(rows), first + Len(lines) - 1) |->
                IF first <= i /\ i < first + Len(lines) THEN lines[i - first + 1]
                ELSE IF i <= Len(rows) THEN rows[i]
                ELSE EmptyCell])

\* the first i in from..to with test(rows[i]), or 0
RECURSIVE FirstTitle(_, _, _, _)
FirstTitle(rows, from, to, title) ==
    IF from > to THEN 0
    ELSE IF Strip(rows[from]) = title THEN from
    ELSE FirstTitle(rows, from + 1, to, title)

RECURSIVE FirstStart(_, _, _)
FirstStart(rows, from, to) ==
    IF from > to THEN 0
    ELSE IF StartsWith(Strip(rows[from]), any_report_start_pattern) THEN from
    ELSE FirstStart(rows, from + 1, to)

NoRange == [start |-> 0, end |-> 0]

\* (mutant) no section is ever found
ExistingRangeNone(rows, date_str) == NoRange

\* (mutant) the section always runs to the last row of the sheet
ExistingRangeToEnd(rows, date_str) ==
    LET start_row == FirstTitle(rows, 1, Len(rows), StartTitle(date_str))
    IN  IF start_row = 0 THEN NoRange ELSE [start |-> start_row, end |-> Len(rows)]

\* find_existing_report_range on the rows read from column A:
\* (start_row, end_row_to_clear), or NoRange for (None, None)
ExistingRange(rows, date_str) ==
    LET last_row_in_sheet == Len(rows)
        start_row == FirstTitle(rows, 1, last_row_in_sheet, StartTitle(date_str))
        next_start_row == FirstStart(rows, start_row + 1, last_row_in_sheet)
        end_row_to_clear ==
            IF next_start_row # 0 THEN next_start_row - 1 ELSE last_row_in_sheet
    IN  IF start_row = 0 THEN NoRange
        ELSE [start |-> start_row, end |-> Max(start_row, end_row_to_clear)]

\* the update branch of the report write: clear the range, write at its start
OverwriteReport(rows, rng, lines) ==
    UpdateRows(ClearRows(rows, rng.start, rng.end), rng.start, lines)

\* (mutant) the section is always written from row 1
AppendRowFirst(rows) == 1

\* start_row_for_append
AppendRow(rows) == IF rows # <<>> THEN Len(rows) + 1 ELSE 1

\* the append branch of the report write
AppendReport(rows, lines) == UpdateRows(rows, AppendRow(rows), lines)

(* ------------------------------ inputs --------------------------------- *)

\* the rosters of 1 .. MaxRoster distinct names
NameList == <<"A", "B", "C", "D">>
TeamRosters == {SubSeq(NameList, 1, k) : k \in 1..MaxRoster}

\* settings.yaml: absent, unparsable, empty, or a mapping with or without
\* the key 'stakeholders'
SettingsOver(rosters) ==
    {[kind |-> k, stakeholders |-> <<>>] : k \in {"absent", "invalid", "empty", "nokey"}}
    \cup {[kind |-> "mapping", stakeholders |-> r] : r \in rosters}

\* settings.yaml holding a number: yaml.safe_load() returns an int
Malformed == {[kind |-> "scalar", stakeholders |-> <<>>]}

\* what a 'Call-status' cell of the sheet can hold
RawStatuses ==
    {Text(s) : s \in all_priority_statuses} \cup {<<WS, "NDR", WS>>, Text("Delivered")}

Dates == {strftime(d) : d \in 1..NumDates}

\* the outcome of a call of the Sheets API
Outcomes == {"ok", "HttpError", "Exception"}

(* ------------------------------- state --------------------------------- *)

VARIABLES
    orders,             \* the data rows of the orders sheet
    reportSheetExists,  \* whether the sheet 'Stakeholder Report' exists
    reportRows,         \* column A of the report sheet
    pc,                 \* the phase distribute_and_report() is about to run
    runs_left,          \* the number of runs still to be started
    faults_left,        \* the number of Sheets API calls that may still fail
    settings_file,      \* settings.yaml as the run found it
    stakeholder_list,   \* locals of distribute_and_report()
    values,
    df,
    filtered_indices,
    today_date_str,
    report_counts,
    formatted_report_values,
    existing,           \* (start_row_existing, end_row_existing)
    ret,                \* the value returned by the run
    calls,              \* the Sheets API calls the run has issued, in order
    sent                \* what main() did with the value returned

persistent == <<orders, reportSheetExists, reportRows>>
locals == <<settings_file, stakeholder_list, values, df, filtered_indices, today_date_str,
            report_counts, formatted_report_values, existing>>
vars == <<orders, reportSheetExists, reportRows, pc, runs_left, faults_left,
          settings_file, stakeholder_list, values, df, filtered_indices, today_date_str,
          report_counts, formatted_report_values, existing, ret, calls, sent>>

\* the return value None, a returned stakeholder_report, and an exception
\* that leaves distribute_and_report()
None == [none |-> TRUE, raised |-> FALSE, report |-> <<>>]
Returned(report) == [none |-> FALSE, raised |-> FALSE, report |-> report]
Raised == [none |-> TRUE, raised |-> TRUE, report |-> <<>>]

\* main() has not gone past the call of distribute_and_report()
NotSent == [state |-> "none", report_data |-> <<>>]

Call(api, outcome) == [api |-> api, outcome |-> outcome]

NoFile == [kind |-> "absent", stakeholders |-> <<>>]

\* nothing is running: no locals, nothing returned, no call issued
Idle ==
    /\ pc = "idle"
    /\ settings_file = NoFile
    /\ stakeholder_list = <<>>
    /\ values = <<>>
    /\ df = <<>>
    /\ filtered_indices = <<>>
    /\ today_date_str = ""
    /\ report_counts = <<>>
    /\ formatted_report_values = <<>>
    /\ existing = NoRange
    /\ ret = None
    /\ calls = <<>>
    /\ sent = NotSent

\* a row nobody has worked on yet
FreshRow(cs) == Row(cs, EmptyCell, EmptyCell, EmptyCell, EmptyCell)

(* ------------------------------- steps --------------------------------- *)

\* load_settings(): the parsed mapping, or None
load_settings(file) ==
    IF file.kind \in {"absent", "invalid", "empty"}
    THEN [none |-> TRUE, is_mapping |-> FALSE, has_stakeholders |-> FALSE,
          stakeholders |-> <<>>]
    ELSE [none |-> FALSE, is_mapping |-> file.kind # "scalar",
          has_stakeholders |-> file.kind = "mapping",
          stakeholders |-> file.stakeholders]

\* line 209: "'stakeholders' not in settings" raises TypeError when the
\* document is a number; nothing catches it
Raises(settings) == ~settings.none /\ ~settings.is_mapping

\* (mutant) an empty roster is not checked for
AbortsUnlessEmptyRoster(settings) == settings.none \/ ~settings.has_stakeholders

\* lines 209-216: the run is aborted for want of a roster
Aborts(settings) ==
    \/ settings.none \/ ~settings.has_stakeholders
    \/ settings.stakeholders = <<>>

\* the outcomes a call can have while the fault budget lasts
MayBe(outcomes) == {o \in outcomes : o = "ok" \/ faults_left > 0}

Failed(o) == IF o = "ok" THEN 0 ELSE 1

\* return None
ReturnNone ==
    /\ pc' = "done"
    /\ ret' = None

\* lines 208-217: the settings and the roster
LoadSettings(files) ==
    /\ pc = "idle"
    /\ runs_left > 0
    /\ runs_left' = runs_left - 1
    /\ calls' = <<>>
    /\ \E file \in files :
          LET settings == load_settings(file)
          IN  /\ settings_file' = file
              /\ IF Raises(settings)
                 THEN pc' = "done" /\ ret' = Raised /\ UNCHANGED stakeholder_list
                 ELSE IF Aborts(settings)
                 THEN ReturnNone /\ UNCHANGED stakeholder_list
                 ELSE /\ stakeholder_list' = settings.stakeholders
                      /\ pc' = "auth"
                      /\ ret' = None
    /\ UNCHANGED <<sent, persistent, values, df, filtered_indices, today_date_str,
                   report_counts, formatted_report_values, existing, faults_left>>

\* lines 219-223: authenticate_google_sheets()
Authenticate ==
    /\ pc = "auth"
    /\ \E o \in MayBe({"ok", "Exception"}) :
          /\ faults_left' = faults_left - Failed(o)
          /\ IF o = "ok" THEN pc' = "read" /\ UNCHANGED ret ELSE ReturnNone
    /\ UNCHANGED <<sent, persistent, runs_left, locals, calls>>

\* lines 226-289: read the orders sheet, normalise it and filter it
ReadOrders ==
    /\ pc = "read"
    /\ \E o \in MayBe({"ok", "HttpError"}) :
          /\ faults_left' = faults_left - Failed(o)
          /\ calls' = Append(calls, Call("orders.get", o))
          /\ IF o # "ok"
             THEN ReturnNone /\ UNCHANGED <<values, df, filtered_indices>>
             ELSE /\ values' = orders
                  /\ IF Len(orders) + DATA_START_ROW_INDEX < DATA_START_ROW_INDEX + 1
                     THEN ReturnNone /\ UNCHANGED <<df, filtered_indices>>
                     ELSE /\ df' = Normalize(orders)
                          /\ filtered_indices' = FilteredIndices(df')
                          /\ IF filtered_indices' = <<>>
                             THEN ReturnNone
                             ELSE pc' = "assign" /\ UNCHANGED ret
    /\ UNCHANGED <<sent, persistent, runs_left, settings_file, stakeholder_list,
                   today_date_str, report_counts, formatted_report_values, existing>>

\* lines 292-332: stakeholders round robin, then the date logic
Assign(dates) ==
    /\ pc = "assign"
    /\ \E d \in dates :
          /\ today_date_str' = d
          /\ df' = ApplyDates(AssignStakeholders(df, filtered_indices, stakeholder_list),
                              filtered_indices, d)
    /\ pc' = "batch"
    /\ UNCHANGED <<sent, persistent, runs_left, faults_left, settings_file, stakeholder_list,
                   values, filtered_indices, report_counts, formatted_report_values,
                   existing, ret, calls>>

\* lines 334-394: the batch update of the orders sheet; a failure is logged
\* and the run goes on
BatchWrite ==
    /\ pc = "batch"
    /\ \E o \in MayBe({"ok", "HttpError"}) :
          /\ faults_left' = faults_left - Failed(o)
          /\ calls' = Append(calls, Call("orders.batchUpdate", o))
          /\ orders' = IF o = "ok" THEN BatchUpdate(orders, df, filtered_indices) ELSE orders
    /\ pc' = "aggregate"
    /\ UNCHANGED <<sent, reportSheetExists, reportRows, runs_left, locals, ret>>

\* lines 396-453: the counts of this run and the rendered section
Aggregate ==
    /\ pc = "aggregate"
    /\ report_counts' = ReportCounts(df, filtered_indices, stakeholder_list)
    /\ formatted_report_values' =
            FormatReport(report_counts', stakeholder_list, today_date_str)
    /\ pc' = "locate"
    /\ UNCHANGED <<sent, persistent, runs_left, faults_left, settings_file, stakeholder_list,
                   values, df, filtered_indices, today_date_str, existing, ret, calls>>

\* lines 459-461 and 132-201: find_existing_report_range()
Locate ==
    /\ pc = "locate"
    /\ IF ~reportSheetExists
       THEN \* HttpError 400 'Unable to parse range': (None, None)
            /\ calls' = Append(calls, Call("report.get", "NotFound"))
            /\ existing' = NoRange
            /\ pc' = "append"
            /\ UNCHANGED <<ret, faults_left>>
       ELSE \E o \in MayBe(Outcomes) :
            /\ faults_left' = faults_left - Failed(o)
            /\ calls' = Append(calls, Call("report.get", o))
            /\ CASE o = "ok" ->
                    /\ existing' = ExistingRange(reportRows, today_date_str)
                    /\ pc' = IF existing' # NoRange THEN "update" ELSE "append"
                    /\ UNCHANGED ret
                 [] o = "HttpError" ->   \* re-raised, caught at line 551
                    /\ ReturnNone
                    /\ UNCHANGED existing
                 [] o = "Exception" ->   \* line 201: (None, None)
                    /\ existing' = NoRange
                    /\ pc' = "append"
                    /\ UNCHANGED ret
    /\ UNCHANGED <<sent, persistent, runs_left, settings_file, stakeholder_list, values, df,
                   filtered_indices, today_date_str, report_counts,
                   formatted_report_values>>

\* lines 533-549: the list returned
ReturnReport ==
    /\ pc' = "done"
    /\ ret' = Returned(StakeholderReport(report_counts, stakeholder_list))

\* lines 463-484: clear the located range, write the section at its start
UpdateExistingReport ==
    /\ pc = "update"
    /\ \E o_clear \in MayBe({"ok", "HttpError"}) :
          IF o_clear # "ok"
          THEN /\ faults_left' = faults_left - 1
               /\ calls' = Append(calls, Call("report.clear", o_clear))
               /\ UNCHANGED reportRows
          ELSE \E o_update \in MayBe({"ok", "HttpError"}) :
               /\ faults_left' = faults_left - Failed(o_update)
               /\ calls' = calls \o <<Call("report.clear", "ok"),
                                      Call("report.update", o_update)>>
               /\ reportRows' =
                    IF o_update = "ok"
                    THEN OverwriteReport(reportRows, existing, formatted_report_values)
                    ELSE ClearRows(reportRows, existing.start, existing.end)
    /\ ReturnReport
    /\ UNCHANGED <<sent, orders, reportSheetExists, runs_left, locals>>

\* lines 486-531: find the next free row (creating the sheet if it is
\* absent) and write the section there
AppendNewReport ==
    /\ pc = "append"
    /\ IF ~reportSheetExists
       THEN \E o_create \in MayBe({"ok", "HttpError"}) :
            IF o_create # "ok"
            THEN /\ faults_left' = faults_left - 1
                 /\ calls' = calls \o <<Call("report.get", "NotFound"),
                                        Call("addSheet", o_create)>>
                 /\ ReturnNone
                 /\ UNCHANGED <<reportSheetExists, reportRows>>
            ELSE \E o_update \in MayBe({"ok", "HttpError"}) :
                 /\ faults_left' = faults_left - Failed(o_update)
                 /\ calls' = calls \o <<Call("report.get", "NotFound"),
                                        Call("addSheet", "ok"),
                                        Call("report.update", o_update)>>
                 /\ reportSheetExists' = TRUE
                 /\ reportRows' =
                      IF o_update = "ok"
                      THEN UpdateRows(reportRows, 1, formatted_report_values)
                      ELSE reportRows
                 /\ ReturnReport
       ELSE \E o_get \in MayBe(Outcomes) :
            IF o_get # "ok"
            THEN \* re-raised and caught at line 551, or caught at line 513
                 /\ faults_left' = faults_left - 1
                 /\ calls' = Append(calls, Call("report.get", o_get))
                 /\ ReturnNone
                 /\ UNCHANGED <<reportSheetExists, reportRows>>
            ELSE \E o_update \in MayBe({"ok", "HttpError"}) :
                 /\ faults_left' = faults_left - Failed(o_update)
                 /\ calls' = calls \o <<Call("report.get", "ok"),
                                        Call("report.update", o_update)>>
                 /\ reportRows' =
                      IF o_update = "ok"
                      THEN AppendReport(reportRows, formatted_report_values)
                      ELSE reportRows
                 /\ UNCHANGED reportSheetExists
                 /\ ReturnReport
    /\ UNCHANGED <<sent, orders, runs_left, locals>>

\* generate_fake_stakeholder_report(): a dict, its keys in insertion order
generate_fake_stakeholder_report ==
    <<[name |-> "Rohan",
       counts |-> [k \in {"Total", "Fresh", "Abandoned", "CNP", "Follow up", "NDR"} |->
                      CASE k = "Total" -> 157 [] k = "Fresh" -> 52 [] k = "Abandoned" -> 50
                        [] k = "CNP" -> 54 [] k = "Follow up" -> 1 [] k = "NDR" -> 0]],
      [name |-> "Lucky",
       counts |-> [k \in {"Total", "Fresh", "Abandoned", "CNP", "Follow up", "NDR"} |->
                      CASE k = "Total" -> 164 [] k = "Fresh" -> 51 [] k = "Abandoned" -> 50
                        [] k = "CNP" -> 41 [] k = "Follow up" -> 10 [] k = "NDR" -> 2]],
      [name |-> "Rohit",
       counts |-> [k \in {"Total", "Fresh", "Abandoned", "CNP", "Follow up", "NDR"} |->
                      CASE k = "Total" -> 145 [] k = "Fresh" -> 48 [] k = "Abandoned" -> 45
                        [] k = "CNP" -> 38 [] k = "Follow up" -> 8 [] k = "NDR" -> 6]]>>

\* counts.get(key, 0)
Get(counts, key) == IF key \in DOMAIN counts THEN counts[key] ELSE 0

\* convert_report_format(): [] for an empty report; the entries of a dict;
\* a list has no method items(), the call raises AttributeError
convert_report_format(report) ==
    IF report.items = <<>> THEN [raised |-> FALSE, value |-> <<>>]
    ELSE IF report.type = "list" THEN [raised |-> TRUE, value |-> <<>>]
    ELSE [raised |-> FALSE,
          value |-> [i \in 1..Len(report.items) |->
                       LET counts == report.items[i].counts
                       IN  [name |-> report.items[i].name,
                            total |-> Get(counts, "Total"),
                            fresh |-> Get(counts, "Fresh"),
                            abandoned |-> Get(counts, "Abandoned"),
                            invalid_fake |-> Get(counts, "Invalid/Fake"),
                            cnp |-> Get(counts, "CNP"),
                            follow_up |-> Get(counts, "Follow up"),
                            ndr |-> Get(counts, "NDR")]]]

\* (mutant) no fake report is substituted
stakeholder_report_as_returned(returned) == [type |-> "list", items |-> returned.report]

\* main() lines 98-103: the report of the run, or the fake one when the run
\* returned None or an empty list
stakeholder_report(returned) ==
    IF returned.none \/ returned.report = <<>>
    THEN [type |-> "dict", items |-> generate_fake_stakeholder_report]
    ELSE [type |-> "list", items |-> returned.report]

\* main() lines 98-121, after distribute_and_report(): an exception of the
\* run or of the conversion ends main(); otherwise send_stakeholder_report()
\* is called once with the converted report
Notify ==
    /\ pc = "done"
    /\ pc' = "notified"
    /\ LET formatted_report == convert_report_format(stakeholder_report(ret))
       IN  sent' = IF ret.raised \/ formatted_report.raised
                   THEN [state |-> "raised", report_data |-> <<>>]
                   ELSE [state |-> "sent", report_data |-> formatted_report.value]
    /\ UNCHANGED <<persistent, runs_left, faults_left, locals, ret, calls>>

\* the process ends: its locals are gone
Exit ==
    /\ pc = "notified"
    /\ pc' = "idle"
    /\ sent' = NotSent
    /\ settings_file' = NoFile
    /\ stakeholder_list' = <<>>
    /\ values' = <<>>
    /\ df' = <<>>
    /\ filtered_indices' = <<>>
    /\ today_date_str' = ""
    /\ report_counts' = <<>>
    /\ formatted_report_values' = <<>>
    /\ existing' = NoRange
    /\ ret' = None
    /\ calls' = <<>>
    /\ UNCHANGED <<persistent, runs_left, faults_left>>

\* between two runs, somebody edits the call status of one of the orders
EditStatus(rows, statuses) ==
    /\ pc = "idle"
    /\ runs_left > 0
    /\ \E r \in rows, cs \in statuses :
          /\ orders[r].call_status # cs
          /\ orders' = [orders EXCEPT ![r].call_status = cs]
    /\ UNCHANGED <<sent, reportSheetExists, reportRows, pc, runs_left, faults_left, locals,
                   ret, calls>>

\* one step of a run of distribute_and_report()
Run(files, dates) ==
    \/ LoadSettings(files)
    \/ Authenticate
    \/ ReadOrders
    \/ Assign(dates)
    \/ BatchWrite
    \/ Aggregate
    \/ Locate
    \/ UpdateExistingReport
    \/ AppendNewReport
    \/ Notify
    \/ Exit

(* --------------------------- specifications ---------------------------- *)

\* Successive runs on any day with a roster of any size, on a sheet of
\* 'Fresh' and "Call didn't Pick" orders; the report sheet does not exist yet.
Init ==
    /\ orders \in {[r \in 1..NumRows |->
                        FreshRow(IF r % 2 = k THEN Text("Fresh") ELSE Text("Call didn't Pick"))]
                    : k \in 0..1}
    /\ reportSheetExists = FALSE
    /\ reportRows = <<>>
    /\ runs_left = MaxRuns
    /\ faults_left = 0
    /\ Idle

Next == Run(SettingsOver(TeamRosters \cup {<<>>}), Dates)

Spec == Init /\ [][Next]_vars

\* the section a run of day 1 wrote when "A" was the whole roster and one
\* order was 'Fresh'
EarlierSection ==
    LET frame == AssignStakeholders(Normalize(<<FreshRow(Text("Fresh"))>>), <<1>>, <<"A">>)
    IN  FormatReport(ReportCounts(frame, <<1>>, <<"A">>), <<"A">>, strftime(1))

\* One run on a sheet of any call statuses, every order assigned to "A"
\* before; the report sheet holds the section of day 1.
InitAssign ==
    /\ orders \in [1..NumRows ->
                    {Row(cs, Text("A"), EmptyCell, EmptyCell, EmptyCell) : cs \in RawStatuses}]
    /\ reportSheetExists = TRUE
    /\ reportRows = EarlierSection
    /\ runs_left = 1
    /\ faults_left = 0
    /\ Idle

\* the rosters of this run: distinct names, a reordered and a repeated name,
\* and the empty roster
AssignRosters == TeamRosters \cup {<<"B", "A">>, <<"A", "A">>, <<>>}

\* the run happens on the day of the earlier section or on the next day
AssignDays == {strftime(1), strftime(2)}

NextAssign == Run(SettingsOver(AssignRosters), AssignDays)

SpecAssign == InitAssign /\ [][NextAssign]_vars

\* Successive runs with the roster <<"A">> on a sheet whose first order is
\* "Call didn't Pick" and is edited between the runs; the other orders are
\* not eligible.
InitDates ==
    /\ orders = [r \in 1..NumRows |->
                    FreshRow(IF r = 1 THEN Text("Call didn't Pick") ELSE Text("Delivered"))]
    /\ reportSheetExists = FALSE
    /\ reportRows = <<>>
    /\ runs_left = MaxRuns + 1
    /\ faults_left = 0
    /\ Idle

\* what the call-status cell is edited to
EditStatuses == {Text("Call didn't Pick"), Text("Fresh"), Text("Delivered")}

NextDates ==
    \/ Run(SettingsOver({<<"A">>}), Dates)
    \/ EditStatus({1}, EditStatuses)

SpecDates == InitDates /\ [][NextDates]_vars

\* lines 243-244: the header row, stripped
header(raw) ==
    [j \in 1..Len(raw[HEADER_ROW_INDEX + 1]) |-> Strip(raw[HEADER_ROW_INDEX + 1][j])]

\* line 248: values[DATA_START_ROW_INDEX:]
data_rows_raw(raw) == SubSeq(raw, DATA_START_ROW_INDEX + 1, Len(raw))

\* (mutant) a long row is kept whole
processed_row_padded_only(row, header_length) ==
    [j \in 1..Max(Len(row), header_length) |->
        IF j <= Len(row) THEN Strip(row[j]) ELSE EmptyCell]

\* lines 251-256: the cells stripped, then the row padded with '' or
\* truncated to the length of the header
processed_row(row, header_length) ==
    LET stripped == [j \in 1..Len(row) |-> Strip(row[j])]
    IN  IF Len(stripped) < header_length
        THEN stripped \o [j \in 1..(header_length - Len(stripped)) |-> EmptyCell]
        ELSE IF Len(stripped) > header_length
        THEN SubSeq(stripped, 1, header_length)
        ELSE stripped

\* lines 249-262: the rows of the DataFrame with their _original_row_index
padded_data_rows(raw) ==
    [i \in 1..Len(data_rows_raw(raw)) |->
        [cells |-> processed_row(data_rows_raw(raw)[i], Len(header(raw))),
         original_row_index |-> DATA_START_ROW_INDEX + i]]

\* lines 226-262 on a raw table: None for a table with no row or without a
\* data row, else the DataFrame
ReadRaw ==
    /\ pc = "read"
    /\ calls' = Append(calls, Call("orders.get", "ok"))
    /\ values' = orders
    /\ IF orders = <<>> \/ Len(orders) < DATA_START_ROW_INDEX + 1
       THEN ReturnNone /\ UNCHANGED df
       ELSE /\ df' = padded_data_rows(orders)
            /\ pc' = "normalized"
            /\ UNCHANGED ret
    /\ UNCHANGED <<sent, persistent, runs_left, faults_left, settings_file,
                   stakeholder_list, filtered_indices, today_date_str, report_counts,
                   formatted_report_values, existing>>

\* the rows of at most n raw cells: cell j holds the text j between
\* blanks, and at most one cell of the row is empty
RawRows(n) ==
    {[j \in 1..w |-> IF j = b THEN EmptyCell ELSE <<WS, ToString(j), WS>>]
        : w \in 0..n, b \in 0..n}

\* the header rows of up to MaxWidth - 1 column names
RawHeaders == {[j \in 1..w |-> <<"col", ToString(j), WS>>] : w \in 0..(MaxWidth - 1)}

\* the raw tables: a title row, a header row and up to MaxRawRows data
\* rows, and the tables cut short before the first data row
RawTables ==
    LET full == UNION {{<<<<Text("title")>>, h>> \o d : d \in [1..n -> RawRows(MaxWidth)]}
                        : h \in RawHeaders, n \in 1..MaxRawRows}
    IN  full \cup {<<>>, <<<<Text("title")>>>>} \cup {<<<<Text("title")>>, h>> : h \in RawHeaders}

\* The read of a raw table whose rows are shorter than, as long as, and
\* longer than the header.
InitRaw ==
    /\ orders \in RawTables
    /\ reportSheetExists = FALSE
    /\ reportRows = <<>>
    /\ runs_left = 0
    /\ faults_left = 0
    /\ pc = "read"
    /\ settings_file = NoFile
    /\ stakeholder_list = <<>>
    /\ values = <<>>
    /\ df = <<>>
    /\ filtered_indices = <<>>
    /\ today_date_str = ""
    /\ report_counts = <<>>
    /\ formatted_report_values = <<>>
    /\ existing = NoRange
    /\ ret = None
    /\ calls = <<>>
    /\ sent = NotSent

NextRaw == ReadRaw

SpecRaw == InitRaw /\ [][NextRaw]_vars

\* what a date cell of the sheet can hold: nothing, blanks, or the date of
\* an earlier day between blanks
SlotCells == {EmptyCell, <<WS>>, <<WS, strftime(0), WS>>}

\* the call statuses of the order whose dates are followed
SlotStatuses ==
    {Text("Call didn't Pick"), Text("Fresh"), <<WS, "NDR", WS>>, Text("Delivered")}

\* Two runs with the roster <<"A">> on a sheet whose first order has any
\* status and any dates, and may change status between the runs; the other
\* orders are not eligible.
InitSlots ==
    /\ orders \in {[r \in 1..NumRows |->
                        IF r = 1 THEN Row(cs, EmptyCell, d1, d2, d3)
                        ELSE FreshRow(Text("Delivered"))]
                    : cs \in SlotStatuses, d1 \in SlotCells, d2 \in SlotCells, d3 \in SlotCells}
    /\ reportSheetExists = FALSE
    /\ reportRows = <<>>
    /\ runs_left = 2
    /\ faults_left = 0
    /\ Idle

NextSlots ==
    \/ Run({[kind |-> "mapping", stakeholders |-> <<"A">>]}, AssignDays)
    \/ EditStatus({1}, {Text("Call didn't Pick"), Text("Fresh")})

SpecSlots == InitSlots /\ [][NextSlots]_vars

\* One run in which up to MaxFaults calls of the Sheets API fail, with any
\* settings file, on a sheet of 'Fresh' and "Call didn't Pick" orders; the
\* report sheet is absent or holds the section of day 1.
InitFaults ==
    /\ orders \in {[r \in 1..NumRows |->
                        FreshRow(IF r % 2 = k THEN Text("Fresh") ELSE Text("Call didn't Pick"))]
                    : k \in 0..1}
    /\ reportSheetExists \in BOOLEAN
    /\ reportRows = IF reportSheetExists THEN EarlierSection ELSE <<>>
    /\ runs_left = 1
    /\ faults_left = MaxFaults
    /\ Idle

NextFaults == Run(SettingsOver(TeamRosters \cup {<<>>}) \cup Malformed, AssignDays)

SpecFaults == InitFaults /\ [][NextFaults]_vars

\* One run with a roster of distinct names on a sheet of orders of any
\* status of the priority tiers, or delivered; the report sheet holds the
\* section of day 1.
InitTiers ==
    /\ orders \in [1..NumRows ->
                    {FreshRow(Text(cs)) : cs \in all_priority_statuses \cup {"Delivered"}}]
    /\ reportSheetExists = TRUE
    /\ reportRows = EarlierSection
    /\ runs_left = 1
    /\ faults_left = 0
    /\ Idle

NextTiers == Run({[kind |-> "mapping", stakeholders |-> r] : r \in TeamRosters}, AssignDays)

SpecTiers == InitTiers /\ [][NextTiers]_vars

(* ------------------ the orders sheet with its columns ------------------ *)

\* COL_NAMES: the columns the run reads or writes; the other entries name
\* columns the run only makes sure the DataFrame has
COL_NAMES ==
    [call_status |-> "Call-status", stakeholder |-> "Stakeholder", date_col |-> "Date",
     date_col_2 |-> "Date 2", date_col_3 |-> "Date 3"]

\* line 339
cols_to_update_names ==
    <<COL_NAMES.stakeholder, COL_NAMES.date_col, COL_NAMES.date_col_2, COL_NAMES.date_col_3>>

RECURSIVE IndexFrom(_, _, _)
IndexFrom(hdr, name, j) ==
    IF j > Len(hdr) THEN 0
    ELSE IF hdr[j] = Text(name) THEN j
    ELSE IndexFrom(hdr, name, j + 1)

\* (mutant) a column that is not in the header is taken to be the first one
sheet_col_index_or_first(hdr, name) ==
    IF IndexFrom(hdr, name, 1) = 0 THEN 1 ELSE IndexFrom(hdr, name, 1)

\* lines 343-351: header.index(col_name) counted from 1, and 0 where the
\* code has -1 for a column that is not in the header
sheet_col_index(hdr, name) == IndexFrom(hdr, name, 1)

\* lines 267-272: the column of the DataFrame, '' when the header lacks it
Column(cells, hdr, name) ==
    IF IndexFrom(hdr, name, 1) # 0 THEN cells[IndexFrom(hdr, name, 1)] ELSE EmptyCell

\* lines 261-275: the DataFrame of a raw table, reduced to the columns the
\* run uses
Frame(raw) ==
    LET hdr == header(raw)
        rows == padded_data_rows(raw)
    IN  [i \in 1..Len(rows) |->
            [call_status |-> Strip(Column(rows[i].cells, hdr, COL_NAMES.call_status)),
             stakeholder |-> Column(rows[i].cells, hdr, COL_NAMES.stakeholder),
             date_1 |-> Column(rows[i].cells, hdr, COL_NAMES.date_col),
             date_2 |-> Column(rows[i].cells, hdr, COL_NAMES.date_col_2),
             date_3 |-> Column(rows[i].cells, hdr, COL_NAMES.date_col_3),
             original_row_index |-> rows[i].original_row_index]]

\* an entry of row_values_to_write: None, or a value
NoneValue == [null |-> TRUE, value |-> EmptyCell]
Value(c) == [null |-> FALSE, value |-> c]

\* lines 341-351: the greatest index of a target column, 0 for -1
max_col_index_to_write(hdr) ==
    LET S == {sheet_col_index(hdr, cols_to_update_names[k]) : k \in DOMAIN cols_to_update_names}
    IN  CHOOSE m \in S : \A x \in S : x <= m

\* (mutant) the cells between the target columns are written as ''
row_values_to_write_blank(hdr, row_data) ==
    [j \in 1..max_col_index_to_write(hdr) |->
        IF j = sheet_col_index(hdr, COL_NAMES.stakeholder) THEN Value(row_data.stakeholder)
        ELSE IF j = sheet_col_index(hdr, COL_NAMES.date_col) THEN Value(row_data.date_1)
        ELSE IF j = sheet_col_index(hdr, COL_NAMES.date_col_2) THEN Value(row_data.date_2)
        ELSE IF j = sheet_col_index(hdr, COL_NAMES.date_col_3) THEN Value(row_data.date_3)
        ELSE Value(EmptyCell)]

\* lines 358-372: None up to the last target column, and the values of the
\* DataFrame row at the indices of the target columns that were found
row_values_to_write(hdr, row_data) ==
    [j \in 1..max_col_index_to_write(hdr) |->
        IF j = sheet_col_index(hdr, COL_NAMES.stakeholder) THEN Value(row_data.stakeholder)
        ELSE IF j = sheet_col_index(hdr, COL_NAMES.date_col) THEN Value(row_data.date_1)
        ELSE IF j = sheet_col_index(hdr, COL_NAMES.date_col_2) THEN Value(row_data.date_2)
        ELSE IF j = sheet_col_index(hdr, COL_NAMES.date_col_3) THEN Value(row_data.date_3)
        ELSE NoneValue]

\* lines 353-380: one update per filtered row, none when the header has no
\* target column
updates(hdr, frame, fi) ==
    IF max_col_index_to_write(hdr) = 0 THEN <<>>
    ELSE [k \in 1..Len(fi) |->
            [row |-> frame[fi[k]].original_row_index,
             values |-> row_values_to_write(hdr, frame[fi[k]])]]

\* values().update of one row from column A: a None leaves the cell as it
\* is, a value replaces it
UpdateCells(row, vals) ==
    TrimRows([j \in 1..Max(Len(row), Len(vals)) |->
                IF j <= Len(vals) /\ ~vals[j].null THEN vals[j].value
                ELSE IF j <= Len(row) THEN row[j]
                ELSE EmptyCell])

\* values().batchUpdate of the table: each update at the row it names
BatchUpdateTable(table, ups) ==
    [r \in 1..Len(table) |->
        IF \E k \in DOMAIN ups : ups[k].row = r
        THEN UpdateCells(table[r], ups[CHOOSE k \in DOMAIN ups : ups[k].row = r].values)
        ELSE table[r]]

\* lines 226-289 on a table with its header: read, pad, build the
\* DataFrame and filter it
ReadTable ==
    /\ pc = "read"
    /\ \E o \in MayBe({"ok", "HttpError"}) :
          /\ faults_left' = faults_left - Failed(o)
          /\ calls' = Append(calls, Call("orders.get", o))
          /\ IF o # "ok"
             THEN ReturnNone /\ UNCHANGED <<values, df, filtered_indices>>
             ELSE /\ values' = orders
                  /\ IF orders = <<>> \/ Len(orders) < DATA_START_ROW_INDEX + 1
                     THEN ReturnNone /\ UNCHANGED <<df, filtered_indices>>
                     ELSE /\ df' = Frame(orders)
                          /\ filtered_indices' = FilteredIndices(df')
                          /\ IF filtered_indices' = <<>>
                             THEN ReturnNone
                             ELSE pc' = "assign" /\ UNCHANGED ret
    /\ UNCHANGED <<sent, persistent, runs_left, settings_file, stakeholder_list,
                   today_date_str, report_counts, formatted_report_values, existing>>

\* lines 334-394 on a table with its header: no call when there is no
\* update; a failure of the call is logged and the run goes on
BatchWriteTable ==
    /\ pc = "batch"
    /\ LET ups == updates(header(values), df, filtered_indices)
       IN  IF ups = <<>>
           THEN UNCHANGED <<orders, calls, faults_left>>
           ELSE \E o \in MayBe({"ok", "HttpError"}) :
                /\ faults_left' = faults_left - Failed(o)
                /\ calls' = Append(calls, Call("orders.batchUpdate", o))
                /\ orders' = IF o = "ok" THEN BatchUpdateTable(orders, ups) ELSE orders
    /\ pc' = "aggregate"
    /\ UNCHANGED <<sent, reportSheetExists, reportRows, runs_left, locals, ret>>

\* one step of a run of distribute_and_report() on a table with its header
RunTable(files, dates) ==
    \/ LoadSettings(files)
    \/ Authenticate
    \/ ReadTable
    \/ Assign(dates)
    \/ BatchWriteTable
    \/ Aggregate
    \/ Locate
    \/ UpdateExistingReport
    \/ AppendNewReport
    \/ Notify
    \/ Exit

\* the columns of the sheet, two of them foreign to the run
TableColumns == <<"Id", "Call-status", "Stakeholder", "Name", "Date", "Date 2", "Date 3">>

\* the headers: the columns without any set of target columns, and the
\* columns in another order
Layouts ==
    {SelectSeq(TableColumns, LAMBDA c : c \notin missing)
        : missing \in SUBSET Range(cols_to_update_names)}
    \cup {<<"Date 3", "Name", "Stakeholder", "Date", "Call-status", "Date 2", "Id">>}

\* the header row of the sheet: every second name is followed by a blank
HeaderRow(layout) ==
    [j \in DOMAIN layout |-> IF j % 2 = 0 THEN <<layout[j], WS>> ELSE Text(layout[j])]

\* a data row of the sheet: an order assigned to "Z" before
DataRow(layout, cs, d) ==
    TrimRows([j \in DOMAIN layout |->
        CASE layout[j] = "Id" -> Text("7")
          [] layout[j] = "Call-status" -> cs
          [] layout[j] = "Stakeholder" -> Text("Z")
          [] layout[j] = "Name" -> <<WS, "n", WS>>
          [] layout[j] = "Date" -> d
          [] OTHER -> EmptyCell])

\* the sheets: a title row, a header row and MaxRawRows data rows
Tables ==
    UNION {{<< <<Text("title"), <<WS>>, Text("x")>>, HeaderRow(layout) >> \o rows
                : rows \in [1..MaxRawRows ->
                              {DataRow(layout, cs, d)
                                  : cs \in SlotStatuses, d \in {EmptyCell, <<WS, strftime(0), WS>>}}]}
            : layout \in Layouts}

\* One run with the roster <<"A", "B">> on a sheet whose header has any of
\* the target columns; the report sheet holds the section of day 1.
InitTable ==
    /\ orders \in Tables
    /\ reportSheetExists = TRUE
    /\ reportRows = EarlierSection
    /\ runs_left = 1
    /\ faults_left = 0
    /\ Idle

NextTable == RunTable({[kind |-> "mapping", stakeholders |-> <<"A", "B">>]}, AssignDays)

SpecTable == InitTable /\ [][NextTable]_vars

\* what a cell of column A of the report sheet can hold: nothing, blanks,
\* the start marker of day 1 or 2, the one of day 1 between blanks, the end
\* marker of day 1, a start marker cut short, and a note
LogCells ==
    { EmptyCell, <<WS>>, StartTitle(strftime(1)), StartTitle(strftime(2)),
      <<WS>> \o StartTitle(strftime(1)) \o <<WS>>, EndTitle(strftime(1)),
      any_report_start_pattern \o <<strftime(1)>>, Text("note") }

\* column A of a report sheet: up to MaxLog rows, the last one not empty
Logs ==
    UNION {{log \in [1..n -> LogCells] : n > 0 => log[n] # EmptyCell} : n \in 0..MaxLog}

\* One run with the roster <<"A">> or <<"A", "B">> on a sheet with one
\* 'Fresh' order; the report sheet is absent, or its column A holds any log.
InitLog ==
    /\ orders = [r \in 1..NumRows |->
                    FreshRow(IF r = 1 THEN Text("Fresh") ELSE Text("Delivered"))]
    /\ reportSheetExists \in BOOLEAN
    /\ reportRows \in IF reportSheetExists THEN Logs ELSE {<<>>}
    /\ runs_left = 1
    /\ faults_left = 0
    /\ Idle

NextLog ==
    Run({[kind |-> "mapping", stakeholders |-> r] : r \in {<<"A">>, <<"A", "B">>}}, AssignDays)

SpecLog == InitLog /\ [][NextLog]_vars

(* ------------------------------ claims --------------------------------- *)

\* the call statuses of the four priority tiers
TierStatuses ==
    {"NDR", "Confirmation Pending", "Fresh", "Call didn't Pick", "Follow up",
     "Abandoned", "Number invalid/fake order"}

\* the rows of the sheet as read whose trimmed call status is in a tier
Eligible(vals) ==
    {i \in 1..Len(vals) : \E s \in TierStatuses : Strip(vals[i].call_status) = <<s>>}

\* the trimmed call status of an eligible row
StatusOf(vals, i) == CHOOSE s \in TierStatuses : Strip(vals[i].call_status) = <<s>>

\* the name the round robin gives each of the eligible rows E: the row with
\* i eligible rows before it gets roster[i mod len(roster)]
Turns(E, roster) ==
    [i \in E |-> roster[(Cardinality({j \in E : j < i}) % Len(roster)) + 1]]

\* the run has just assigned the stakeholders in memory
Assigned == pc = "batch"

\* the run has written the assignments to the orders sheet
Written ==
    /\ pc \in {"aggregate", "locate", "update", "append", "done"}
    /\ \E j \in DOMAIN calls : calls[j] = Call("orders.batchUpdate", "ok")

\* the run has returned a report
Reported == pc = "done" /\ ~ret.none

\* C1: the eligible records are exactly the rows whose trimmed call status
\* is in one of the four tiers, in row order; the i-th of them (0-based) is
\* assigned roster[i mod len(roster)], whatever it was assigned before; no
\* other row is assigned, so there are as many assignments as eligible rows.
C1_RoundRobin ==
    (Assigned \/ Written) =>
        LET E == Eligible(values)
            turn == Turns(E, stakeholder_list)
        IN  /\ Len(filtered_indices) = Cardinality(E)
            /\ Range(filtered_indices) = E
            /\ \A k \in 1..(Len(filtered_indices) - 1) :
                    filtered_indices[k] < filtered_indices[k + 1]
            /\ \A i \in 1..Len(values) :
                    df[i].stakeholder =
                        IF i \in E THEN <<turn[i]>> ELSE Strip(values[i].stakeholder)
            /\ Written =>
                    \A i \in 1..Len(values) :
                        orders[i].stakeholder =
                            IF i \in E THEN <<turn[i]>> ELSE values[i].stakeholder

\* a run with two names and three eligible rows, the first with a padded
\* status: the third row is back at the first name, the second row changed
\* from "A" to "B"
C1_Witness ==
    /\ Reported
    /\ stakeholder_list = <<"A", "B">>
    /\ Eligible(values) = {1, 2, 3}
    /\ values[1].call_status = <<WS, "NDR", WS>>
    /\ values[2].stakeholder = <<"A">>
    /\ orders[1].stakeholder = <<"A">>
    /\ orders[2].stakeholder = <<"B">>
    /\ orders[3].stakeholder = <<"A">>

\* the six category counts of an entry of the returned report
CategoryCount(e, c) ==
    CASE c = "Fresh" -> e.fresh
      [] c = "Abandoned" -> e.abandoned
      [] c = "Invalid/Fake" -> e.invalid_fake
      [] c = "CNP" -> e.cnp
      [] c = "Follow up" -> e.follow_up
      [] c = "NDR" -> e.ndr

Categories == {"Fresh", "Abandoned", "Invalid/Fake", "CNP", "Follow up", "NDR"}

\* C6: in every returned report, the total of each stakeholder is the sum
\* of that stakeholder's six category counts.
C6_TotalIsSum ==
    Reported =>
        \A j \in DOMAIN ret.report :
            LET e == ret.report[j]
            IN  e.total = e.fresh + e.abandoned + e.invalid_fake + e.cnp
                          + e.follow_up + e.ndr

\* a report with an entry that has an invalid/fake order and a fresh one
C6_Witness ==
    /\ Reported
    /\ \E j \in DOMAIN ret.report :
            /\ ret.report[j].invalid_fake > 0
            /\ ret.report[j].fresh > 0
            /\ ret.report[j].total >= 2

\* C7: the count of stakeholder s in category c is the number of eligible
\* rows of this run whose turn is s and whose status maps to c.
C7_CountsOfThisRun ==
    Reported =>
        LET E == Eligible(values)
            turn == Turns(E, stakeholder_list)
            category == [i \in E |-> STATUS_TO_REPORT_CATEGORY[StatusOf(values, i)]]
        IN  \A j \in DOMAIN ret.report : \A c \in Categories :
                CategoryCount(ret.report[j], c) =
                    Cardinality({i \in E : turn[i] = ret.report[j].name /\ category[i] = c})

\* the scenario of the specification: roster [A, B], statuses Fresh, NDR,
\* Follow up
C7_Witness ==
    /\ Reported
    /\ stakeholder_list = <<"A", "B">>
    /\ [i \in 1..3 |-> values[i].call_status] = << <<"Fresh">>, <<"NDR">>, <<"Follow up">> >>
    /\ [i \in 1..3 |-> orders[i].stakeholder] = << <<"A">>, <<"B">>, <<"A">> >>
    /\ ret.report =
         << [name |-> "A", total |-> 2, fresh |-> 1, abandoned |-> 0, invalid_fake |-> 0,
             cnp |-> 0, follow_up |-> 1, ndr |-> 0],
            [name |-> "B", total |-> 1, fresh |-> 0, abandoned |-> 0, invalid_fake |-> 0,
             cnp |-> 0, follow_up |-> 0, ndr |-> 1] >>

\* the run has read the sheet and found no eligible row
NoneEligible == pc = "done" /\ values # <<>> /\ Eligible(values) = {}

\* C8: when no record is eligible, the run writes no assignment to the
\* orders sheet and still returns a report with one all-zero entry per
\* roster member.
C8_ZeroReport ==
    NoneEligible =>
        /\ \A j \in DOMAIN calls : calls[j].api # "orders.batchUpdate"
        /\ orders = values
        /\ ~ret.none
        /\ {ret.report[j].name : j \in DOMAIN ret.report} = Range(stakeholder_list)
        /\ \A j \in DOMAIN ret.report :
                /\ ret.report[j].total = 0
                /\ \A c \in Categories : CategoryCount(ret.report[j], c) = 0

\* C9: when no record is eligible, the run ends right after the read of the
\* orders sheet: no call of the locator or of the writer is issued, and no
\* step of the run changes the orders sheet or the report sheet.
C9_NothingTouched ==
    [][ /\ (pc \in {"idle", "auth", "read", "done", "notified"} /\ pc' # pc) =>
                UNCHANGED <<orders, reportSheetExists, reportRows>>
        /\ (pc = "read" /\ Eligible(orders) = {}) =>
                /\ pc' = "done"
                /\ ret' = None
                /\ \A j \in DOMAIN calls' : calls'[j].api = "orders.get"
      ]_vars

\* a run that found no eligible row has returned; both sheets are as they were
C9_Witness ==
    /\ NoneEligible
    /\ stakeholder_list # <<>>
    /\ ret = None
    /\ calls = <<Call("orders.get", "ok")>>
    /\ orders = values
    /\ reportRows = EarlierSection

\* C10: when the settings file is missing, unparsable, empty, without the
\* key 'stakeholders' or with an empty roster, the run returns None and has
\* issued no call on either sheet.
C10_AbortBeforeIO ==
    (/\ pc # "idle"
     /\ \/ settings_file.kind \in {"absent", "invalid", "empty", "nokey"}
        \/ settings_file.kind = "mapping" /\ settings_file.stakeholders = <<>>) =>
        /\ pc \in {"done", "notified"}
        /\ ret = None
        /\ calls = <<>>
        /\ values = <<>>

\* a run with an empty roster has returned, after a run that wrote a report
C10_Witness ==
    /\ pc = "done"
    /\ settings_file = [kind |-> "mapping", stakeholders |-> <<>>]
    /\ ret = None
    /\ calls = <<>>
    /\ reportRows # <<>>

\* the date columns of a row, in the order of the attempts
Slot(row, j) == IF j = 1 THEN row.date_1 ELSE IF j = 2 THEN row.date_2 ELSE row.date_3

\* the first empty date column of a row, 4 when the three are filled
FirstEmptySlot(row) ==
    CHOOSE j \in 1..4 :
        /\ j = 4 \/ Slot(row, j) = EmptyCell
        /\ \A i \in 1..(j - 1) : Slot(row, i) # EmptyCell

IsCNP(row) == Strip(row.call_status) = Text("Call didn't Pick")

\* C2: a run that finds an order with status "Call didn't Pick" writes
\* today's date in the first empty date column of the order, in the order
\* date_1, date_2, date_3, and leaves the other columns as they were: the
\* n-th such run after three empty columns fills date_n, and a run that
\* finds the three columns filled changes none.
C2_AttemptDates ==
    Written =>
        \A r \in DOMAIN values :
            IsCNP(values[r]) =>
                LET n == FirstEmptySlot(values[r])
                IN  /\ \A j \in n..3 : Slot(values[r], j) = EmptyCell
                    /\ \A j \in 1..3 :
                          Slot(orders[r], j) =
                              IF j = n THEN Text(today_date_str) ELSE Slot(values[r], j)

\* the fourth run over an order that three runs, on days 1, 2 and 1, found
\* with status "Call didn't Pick": the three dates are as they were
C2_Witness ==
    /\ pc = "done"
    /\ Written
    /\ runs_left = 0
    /\ IsCNP(values[1])
    /\ <<values[1].date_1, values[1].date_2, values[1].date_3>>
            = <<Text(strftime(1)), Text(strftime(2)), Text(strftime(1))>>
    /\ <<orders[1].date_1, orders[1].date_2, orders[1].date_3>>
            = <<Text(strftime(1)), Text(strftime(2)), Text(strftime(1))>>

\* the rows of the report sheet that hold the start marker of a date
StartMarkers(rows, date_str) ==
    {i \in DOMAIN rows : Strip(rows[i]) = StartTitle(date_str)}

\* the report write phase on a report sheet: the locator, then the update
\* branch or the append branch
WriteReport(rows, lines, date_str) ==
    LET rng == ExistingRange(rows, date_str)
    IN  IF rng # NoRange THEN OverwriteReport(rows, rng, lines)
        ELSE AppendReport(rows, lines)

\* C3: once a run has written its section, a second write of the same
\* section for the same date leaves the report sheet as the first write left
\* it, with exactly one section for the date.
C3_RewriteIsIdempotent ==
    (Reported /\ calls[Len(calls)] = Call("report.update", "ok")) =>
        /\ Cardinality(StartMarkers(reportRows, today_date_str)) = 1
        /\ WriteReport(reportRows, formatted_report_values, today_date_str) = reportRows

\* C4: the update branch changes no row of the report sheet outside the
\* located range [start, end], whatever the length of the new section.
C4_OnlyLocatedRange ==
    [][ pc = "update" =>
            \A i \in DOMAIN reportRows :
                (i < existing.start \/ i > existing.end) =>
                    /\ i <= Len(reportRows')
                    /\ reportRows'[i] = reportRows[i]
      ]_vars

C11_ReportAfterWrite ==
    [][ /\ pc' \in {"aggregate", "locate", "update", "append"} =>
                \E j \in DOMAIN calls' : calls'[j] = Call("orders.batchUpdate", "ok")
        /\ (\E j \in DOMAIN calls : calls[j] = Call("orders.batchUpdate", "HttpError")) =>
                UNCHANGED <<reportSheetExists, reportRows>>
      ]_vars

\* C12: when the run returns a non-empty report, main() calls
\* send_stakeholder_report() with a report that holds every entry of the
\* report returned, and does not end before the call.
C12_ReportReachesSink ==
    (pc = "notified" /\ ~ret.none /\ ret.report # <<>>) =>
        /\ sent.state = "sent"
        /\ \A j \in DOMAIN ret.report :
              \E k \in DOMAIN sent.report_data : sent.report_data[k] = ret.report[j]

\* C13: when the run returns None, main() calls send_stakeholder_report()
\* once, with one entry for each stakeholder of the fake report.
C13_PlaceholderSent ==
    (pc = "notified" /\ ret = None) =>
        /\ sent.state = "sent"
        /\ [k \in DOMAIN sent.report_data |-> sent.report_data[k].name]
              = [k \in DOMAIN generate_fake_stakeholder_report |->
                    generate_fake_stakeholder_report[k].name]

\* a call of the Sheets API failed, the run returned None, and the fake
\* report of three stakeholders went to send_stakeholder_report()
C13_Witness ==
    /\ pc = "notified"
    /\ ret = None
    /\ \E j \in DOMAIN calls : calls[j].outcome = "HttpError"
    /\ sent.state = "sent"
    /\ Len(sent.report_data) = Len(generate_fake_stakeholder_report)
    /\ sent.report_data[1].name = "Rohan"

\* a call of the Sheets API the run issued has failed
FatalCall == \E j \in DOMAIN calls : calls[j].outcome \in {"HttpError", "Exception"}

\* C14: no exception leaves distribute_and_report(), and whenever a call
\* of any phase has failed the value returned is None.
C14_NeverRaises ==
    pc = "done" =>
        /\ ~ret.raised
        /\ FatalCall => ret = None

\* C15: the normalized table has one row for every raw row from the
\* data-start offset on, and every normalized row has as many cells as the
\* header: the stripped cells of the raw row, padded with empty cells or cut
\* at the length of the header.
C15_PaddedToHeader ==
    pc = "normalized" =>
        LET h == Len(values[HEADER_ROW_INDEX + 1])
        IN  /\ Len(df) = Len(values) - DATA_START_ROW_INDEX
            /\ \A i \in DOMAIN df :
                  LET raw_row == values[DATA_START_ROW_INDEX + i]
                  IN  /\ Len(df[i].cells) = h
                      /\ \A j \in 1..h :
                            df[i].cells[j] =
                                IF j <= Len(raw_row) THEN Strip(raw_row[j]) ELSE EmptyCell

\* a table with a row shorter than the header and a row longer than it
C15_Witness ==
    /\ pc = "normalized"
    /\ Len(df) = MaxRawRows
    /\ \E i \in DOMAIN df :
          Len(values[DATA_START_ROW_INDEX + i]) < Len(values[HEADER_ROW_INDEX + 1])
    /\ \E i \in DOMAIN df :
          /\ Len(values[DATA_START_ROW_INDEX + i]) > Len(values[HEADER_ROW_INDEX + 1])
          /\ values[DATA_START_ROW_INDEX + i][Len(values[DATA_START_ROW_INDEX + i])] # EmptyCell

\* the four cells of a row that a run writes
Assignment(row) == <<row.stakeholder, row.date_1, row.date_2, row.date_3>>

\* C16: data row i of the sheet, at 0-based index DATA_START_ROW_INDEX +
\* i - 1 of the raw table, has _original_row_index one more than that index
\* (3 for the first data row), and the batch update puts the stakeholder and
\* the dates computed for a row in the sheet row it was read from, and in
\* no other row.
C16_WritesLandOnOrigin ==
    Written =>
        /\ df[1].original_row_index = 3
        /\ \A i \in DOMAIN df :
              df[i].original_row_index = (DATA_START_ROW_INDEX + i - 1) + 1
        /\ \A i \in DOMAIN orders :
              IF i \in Eligible(values)
              THEN /\ Assignment(orders[i]) = Assignment(df[i])
                   /\ orders[i].call_status = values[i].call_status
              ELSE orders[i] = values[i]

\* the first row is not eligible, the last one is, and the run has written
\* the stakeholder "B" and the date in the last row
C16_Witness ==
    /\ Written
    /\ 1 \notin Eligible(values)
    /\ NumRows \in Eligible(values)
    /\ Cardinality(Eligible(values)) = 2
    /\ orders[NumRows].stakeholder = Text("B")
    /\ orders[NumRows].date_1 = Text(today_date_str)
    /\ orders[1] = values[1]

\* the names of a roster in order, each at its first place only
RECURSIVE Stakeholders(_)
Stakeholders(roster) ==
    IF roster = <<>> THEN <<>>
    ELSE LET before == Stakeholders(SubSeq(roster, 1, Len(roster) - 1))
             last == roster[Len(roster)]
         IN  IF last \in Range(before) THEN before ELSE Append(before, last)

\* C17: the report a run returns has one entry for each stakeholder of the
\* roster, in the order of the roster, and the entry of a stakeholder to
\* whom the run assigned no order has a total and six counts of zero.
C17_EntryPerStakeholder ==
    Reported =>
        /\ [j \in DOMAIN ret.report |-> ret.report[j].name] = Stakeholders(stakeholder_list)
        /\ \A j \in DOMAIN ret.report :
              (\A i \in Eligible(values) : orders[i].stakeholder # Text(ret.report[j].name)) =>
                  /\ ret.report[j].total = 0
                  /\ \A c \in Categories : CategoryCount(ret.report[j], c) = 0

\* one order was eligible and went to "A": "B" is second in the report,
\* with nothing
C17_Witness ==
    /\ Reported
    /\ stakeholder_list = <<"A", "B">>
    /\ Cardinality(Eligible(values)) = 1
    /\ Len(ret.report) = 2
    /\ ret.report[1].total = 1
    /\ ret.report[2].name = "B"
    /\ ret.report[2].total = 0

\* a date cell holds something besides blanks
Populated(row, j) == Strip(Slot(row, j)) # EmptyCell

\* the three date cells of a row hold a date
AllPopulated(row) == \A j \in 1..3 : Populated(row, j)

\* C18 as stated: a run that processes an order whose three dates are
\* populated leaves the three dates as they were, whatever the status.
C18_FullSlotsKept ==
    Written =>
        \A r \in Eligible(values) :
            AllPopulated(values[r]) =>
                \A j \in 1..3 : Slot(orders[r], j) = Strip(Slot(values[r], j))

\* C18 (amended): a run that processes an order whose three dates are
\* populated leaves date_2 and date_3 as they were; it leaves date_1 as it
\* was when the status is "Call didn't Pick" and sets it to the date of the
\* run for any other eligible status.
C18_FullSlotsKeptButFirst ==
    Written =>
        \A r \in Eligible(values) :
            AllPopulated(values[r]) =>
                /\ orders[r].date_1 =
                      IF IsCNP(values[r]) THEN Strip(values[r].date_1) ELSE Text(today_date_str)
                /\ orders[r].date_2 = Strip(values[r].date_2)
                /\ orders[r].date_3 = Strip(values[r].date_3)

\* the second run finds "Call didn't Pick" and the three dates populated,
\* the first of them by the first run: they stay
C18_Witness ==
    /\ Written
    /\ runs_left = 0
    /\ IsCNP(values[1])
    /\ AllPopulated(values[1])
    /\ values[1].date_1 \in {Text(d) : d \in AssignDays}
    /\ \A j \in 1..3 : Slot(orders[1], j) = Strip(Slot(values[1], j))

C20_OtherDatesAsTheyWere ==
    Written =>
        \A r \in Eligible(values) :
            ~IsCNP(values[r]) =>
                /\ orders[r].date_1 = Text(today_date_str)
                /\ orders[r].date_2 = values[r].date_2
                /\ orders[r].date_3 = values[r].date_3

\* C20 (amended): for an eligible order with a status other than "Call
\* didn't Pick", the run sets date_1 to its date, populated or not, and
\* writes date_2 and date_3 back with the values they had, trimmed of the
\* blanks around them.
C20_FirstDateOverwritten ==
    Written =>
        \A r \in Eligible(values) :
            ~IsCNP(values[r]) =>
                /\ orders[r].date_1 = Text(today_date_str)
                /\ df[r].date_1 = Text(today_date_str)
                /\ orders[r].date_2 = Strip(values[r].date_2)
                /\ orders[r].date_3 = Strip(values[r].date_3)

\* an order with status NDR and a first date of an earlier day got the
\* date of the run; its third date is the one it had, its second is empty
C20_Witness ==
    /\ Written
    /\ Strip(values[1].call_status) = Text("NDR")
    /\ Strip(values[1].date_1) = Text(strftime(0))
    /\ orders[1].date_1 = Text(today_date_str)
    /\ orders[1].date_2 = EmptyCell
    /\ orders[1].date_3 = Text(strftime(0))

\* the rows of the log whose trimmed value is the start marker of the date
TitleRows(rows, date_str) ==
    {i \in 1..Len(rows) : Strip(rows[i]) = StartTitle(date_str)}

\* the rows after row s whose trimmed value begins like a start marker
LaterStarts(rows, s) ==
    {i \in (s + 1)..Len(rows) : StartsWith(Strip(rows[i]), any_report_start_pattern)}

Least(S) == CHOOSE i \in S : \A j \in S : i <= j

\* the locator has read column A and the writer has not written yet
Located ==
    /\ pc \in {"update", "append"}
    /\ calls # <<>>
    /\ calls[Len(calls)] = Call("report.get", "ok")

\* C21: find_existing_report_range returns (None, None) when no row of
\* column A is today's start marker after trimming; otherwise start is the
\* first such row and end is the row before the first later row that begins
\* like a start marker, or the last row of the log when there is none, and
\* end >= start.
C21_LocatedRange ==
    Located =>
        LET T == TitleRows(reportRows, today_date_str)
        IN  IF T = {} THEN existing = NoRange /\ pc = "append"
            ELSE LET L == LaterStarts(reportRows, Least(T))
                 IN  /\ pc = "update"
                     /\ existing.start = Least(T)
                     /\ existing.end = IF L = {} THEN Len(reportRows) ELSE Least(L) - 1
                     /\ existing.end >= existing.start

\* the marker of today stands between blanks in row 2, after a note, and
\* the marker of another day follows it: the range is row 2 alone
C21_Witness ==
    /\ Located
    /\ existing = [start |-> 2, end |-> 2]
    /\ Len(reportRows) = 3
    /\ reportRows[2] # StartTitle(today_date_str)

\* the read of column A by the locator, the first 'report.get' of the run,
\* failed though the report sheet exists
LocatorFailed ==
    \E i \in DOMAIN calls :
        /\ calls[i].api = "report.get"
        /\ calls[i].outcome \in {"HttpError", "Exception"}
        /\ \A j \in 1..(i - 1) : calls[j].api # "report.get"

\* C22: when the locator's read of column A fails for another reason than
\* the absence of the report sheet, the run ends without a report and
\* without having appended or overwritten a section.
C22_LocatorFailureIsFatal ==
    (pc = "done" /\ LocatorFailed) => ret = None /\ reportRows = EarlierSection

\* C23: when no section of today was located, the section is written from
\* the row after the last populated row of column A, from row 1 when the
\* log is empty or the sheet is absent (the sheet is created first): every
\* row the log had is unchanged and the section follows them.
C23_AppendBelowLog ==
    [][ (pc = "append" /\ pc' = "done" /\ ret' # None) =>
            /\ reportSheetExists'
            /\ ~reportSheetExists =>
                    reportRows = <<>> /\ Call("addSheet", "ok") \in Range(calls')
            /\ Len(reportRows') = Len(reportRows) + Len(formatted_report_values)
            /\ \A i \in 1..Len(reportRows) : reportRows'[i] = reportRows[i]
            /\ \A k \in 1..Len(formatted_report_values) :
                    reportRows'[Len(reportRows) + k] = formatted_report_values[k]
      ]_vars

\* the log had rows, a blank one among them, and no section of today:
\* the section stands below them
C23_Witness ==
    /\ pc = "done"
    /\ ret # None
    /\ existing = NoRange
    /\ Len(reportRows) >= 2 + Len(formatted_report_values)
    /\ reportRows[1] = <<WS>>
    /\ reportRows[2] = EndTitle(strftime(1))
    /\ reportRows[Len(reportRows) - Len(formatted_report_values) + 1] = StartTitle(today_date_str)

\* the cell of row r and column j of a sheet, '' beyond the cells it has
CellAt(table, r, j) ==
    IF r <= Len(table) /\ j <= Len(table[r]) THEN table[r][j] ELSE EmptyCell

\* the widest row of two tables
Width(t1, t2) ==
    LET S == {Len(t1[r]) : r \in DOMAIN t1} \cup {Len(t2[r]) : r \in DOMAIN t2} \cup {0}
    IN  CHOOSE m \in S : \A x \in S : x <= m

\* the sheet rows of the orders with a status of a priority tier, when the
\* header has the column 'Call-status' in column c
EligibleRows(table, c) ==
    {r \in (DATA_START_ROW_INDEX + 1)..Len(table) : Strip(CellAt(table, r, c)) \in {Text(t) : t \in TierStatuses}}

\* the columns of the header row that hold the name after trimming
ColumnsNamed(table, name) ==
    {j \in 1..Len(table[HEADER_ROW_INDEX + 1]) :
        Strip(table[HEADER_ROW_INDEX + 1][j]) = Text(name)}

\* the target columns the header has
Present(table) == {n \in Range(cols_to_update_names) : ColumnsNamed(table, n) # {}}

\* the value the DataFrame row holds for a target column
InMemory(row, name) ==
    CASE name = "Stakeholder" -> row.stakeholder
      [] name = "Date" -> row.date_1
      [] name = "Date 2" -> row.date_2
      [] name = "Date 3" -> row.date_3

\* the run is over and returned a report
Completed == pc = "done" /\ ret # None

\* C24: whichever target columns the header lacks, the run assigns the
\* stakeholders and the date in memory and returns the report; the cells of
\* the target columns that are present take the values in memory, no other
\* column receives a value, and with no target column at all no batch
\* update is issued and the report is still written.
C24_MissingColumnsTolerated ==
    Completed =>
        LET E == EligibleRows(values, Least(ColumnsNamed(values, "Call-status")))
        IN  /\ Len(filtered_indices) = Cardinality(E)
            /\ \A k \in DOMAIN filtered_indices :
                  /\ df[filtered_indices[k]].original_row_index \in E
                  /\ df[filtered_indices[k]].stakeholder =
                        Text(stakeholder_list[((k - 1) % Len(stakeholder_list)) + 1])
                  /\ Text(today_date_str) \in
                        {df[filtered_indices[k]].date_1, df[filtered_indices[k]].date_2}
                  /\ \A n \in Present(values) :
                        CellAt(orders, df[filtered_indices[k]].original_row_index,
                               Least(ColumnsNamed(values, n)))
                            = InMemory(df[filtered_indices[k]], n)
            /\ \A r \in DOMAIN orders, j \in 1..Width(orders, values) :
                  (\A n \in Present(values) : j \notin ColumnsNamed(values, n)) =>
                      CellAt(orders, r, j) = CellAt(values, r, j)
            /\ Present(values) = {} <=>
                  Call("orders.batchUpdate", "ok") \notin Range(calls)
            /\ SumSeq([i \in DOMAIN ret.report |-> ret.report[i].total]) = Cardinality(E)
            /\ \E i \in DOMAIN reportRows : reportRows[i] = StartTitle(today_date_str)

\* the header has 'Date' and 'Date 3' only: both orders got a stakeholder
\* in memory, the sheet got the date of the run in column 'Date', and "Z"
\* is the only stakeholder the sheet knows
C24_Witness ==
    /\ Completed
    /\ Present(values) = {"Date", "Date 3"}
    /\ Len(filtered_indices) = 2
    /\ df[filtered_indices[2]].stakeholder = Text("B")
    /\ CellAt(orders, DATA_START_ROW_INDEX + 2, Least(ColumnsNamed(values, "Date")))
            = Text(today_date_str)
    /\ \A r \in DOMAIN orders, j \in 1..Width(orders, values) :
            CellAt(orders, r, j) \notin {Text("A"), Text("B")}

\* the cells of the sheet that differ from the cells the run read
ChangedCells ==
    {<<r, j>> \in (1..Max(Len(orders), Len(values))) \X (1..Width(orders, values)) :
        CellAt(orders, r, j) # CellAt(values, r, j)}

\* C28: from the read of the orders sheet to the end of the run, a cell of
\* the sheet differs from what was read only in the row of an eligible
\* order and in the column 'Stakeholder', 'Date', 'Date 2' or 'Date 3': the
\* rows of the other orders, the title and header rows and the other
\* columns are as they were.
C28_OnlyTargetCells ==
    (pc \in {"assign", "batch", "aggregate", "locate", "update", "append", "done"}) =>
        /\ Len(orders) = Len(values)
        /\ \A c \in ChangedCells :
              /\ c[1] \in EligibleRows(values, Least(ColumnsNamed(values, "Call-status")))
              /\ \E n \in Range(cols_to_update_names) : c[2] \in ColumnsNamed(values, n)

\* the first order was eligible and got "A" and the date; its name, between
\* the target columns, still has its blanks, and the second order, not
\* eligible, still has "Z" and the date between blanks
C28_Witness ==
    /\ pc = "done"
    /\ values # <<>>
    /\ <<DATA_START_ROW_INDEX + 1, 3>> \in ChangedCells
    /\ <<DATA_START_ROW_INDEX + 1, 5>> \in ChangedCells
    /\ orders[DATA_START_ROW_INDEX + 1] =
          <<Text("7"), Text("Fresh"), Text("A"), <<WS, "n", WS>>, Text(today_date_str)>>
    /\ orders[DATA_START_ROW_INDEX + 2] =
          <<Text("7"), Text("Delivered"), Text("Z"), <<WS, "n", WS>>, <<WS, strftime(0), WS>>>>

\* the section of the run has been rendered
Rendered == pc \in {"locate", "update", "append"}

\* C25: the section rendered for a roster of n stakeholders has 3 + 9n
\* lines: the start marker of today, a blank line, for each stakeholder in
\* roster order the name line, the total line, the lines of Fresh,
\* Abandoned, Invalid/Fake, CNP, Follow up and NDR in this order and a blank
\* line, and then the end marker of today.
C25_SectionLayout ==
    Rendered =>
        LET f == formatted_report_values
            n == Len(stakeholder_list)
            cats == <<"Fresh", "Abandoned", "Invalid/Fake", "CNP", "Follow up", "NDR">>
        IN  /\ Len(f) = 3 + 9 * n
            /\ f[1] = <<"--- Stakeholder Report for Assignments on ", today_date_str, " ---">>
            /\ f[2] = EmptyCell
            /\ \A k \in 1..n :
                  LET b == 2 + 9 * (k - 1)
                  IN  /\ f[b + 1] = <<"Calls assigned ", stakeholder_list[k]>>
                      /\ f[b + 2] = <<"- Total Calls This Run - ",
                                      Str(report_counts[stakeholder_list[k]]["Total"])>>
                      /\ \A c \in 1..6 :
                            f[b + 2 + c] = <<"- ", cats[c], "- ",
                                             Str(report_counts[stakeholder_list[k]][cats[c]])>>
                      /\ f[b + 9] = EmptyCell
            /\ f[Len(f)] = <<"--- End of Report for ", today_date_str, " ---">>

\* a section of two stakeholders, the second one with an order
C25_Witness ==
    /\ Rendered
    /\ Len(stakeholder_list) = MaxRoster
    /\ Len(formatted_report_values) = 3 + 9 * MaxRoster
    /\ report_counts[stakeholder_list[MaxRoster]]["Total"] > 0

\* the rows of the log that begin like a start marker, and like an end
\* marker or a line of a stakeholder block
StartRows(rows) == {i \in DOMAIN rows : StartsWith(rows[i], any_report_start_pattern)}

BodyRows(rows) ==
    {i \in DOMAIN rows :
        /\ rows[i] # EmptyCell
        /\ rows[i][1] \in {"--- End of Report for ", "Calls assigned ",
                           "- Total Calls This Run - ", "- "}}

\* the section that starts in row i reaches to the row before the next
\* start marker, or to the end of the log
SectionEnd(rows, i) ==
    LET later == {j \in StartRows(rows) : j > i}
    IN  IF later = {} THEN Len(rows) ELSE Least(later) - 1

\* the end markers in the section that starts in row i
EndRows(rows, i) ==
    {j \in (i + 1)..SectionEnd(rows, i) : rows[j] # EmptyCell /\ rows[j][1] = "--- End of Report for "}

\* between a start marker and the next one there is one end marker, of the
\* same date, and no line of a section stands after it or before the first
\* start marker
WellFormed(rows) ==
    /\ \A i \in StartRows(rows) :
          /\ Cardinality(EndRows(rows, i)) = 1
          /\ \A e \in EndRows(rows, i) :
                /\ \E d \in Dates : rows[i] = StartTitle(d) /\ rows[e] = EndTitle(d)
                /\ \A j \in (e + 1)..SectionEnd(rows, i) : j \notin BodyRows(rows)
    /\ \A j \in BodyRows(rows) : \E i \in StartRows(rows) : i < j

\* C26: from an empty report sheet, after any runs whose report writes
\* succeed, on any dates and with rosters of any size, the log is well
\* formed.
C26_LogWellFormed == WellFormed(reportRows)

\* the run has just written its section: the last call is the update of
\* the report sheet, and it succeeded
SectionWritten ==
    /\ pc = "done"
    /\ calls # <<>>
    /\ calls[Len(calls)] = Call("report.update", "ok")

\* the row the write started at: the start of the located range in the
\* update branch, the row after the log as it was in the append branch
WrittenFrom ==
    IF Call("report.clear", "ok") \in Range(calls) THEN existing.start
    ELSE Len(reportRows) - Len(formatted_report_values) + 1

\* C27: right after a successful write of the section of a date from row r
\* with L lines, the locator returns for this date start = r and
\* end >= r + L - 1.
C27_RoundTrip ==
    SectionWritten =>
        LET rng == ExistingRange(reportRows, today_date_str)
        IN  /\ rng.start = WrittenFrom
            /\ rng.end >= WrittenFrom + Len(formatted_report_values) - 1

\* the entries of a report that count a row of stakeholder s in category c
Buckets(report, s, c) ==
    {<<j, k>> \in (DOMAIN report) \X Categories : report[j].name = s /\ k = c}

\* C29: every status of the priority tiers has a report category, and
\* with a roster of distinct names the totals of the returned report add up
\* to the number of eligible orders of the run: each of them is counted in
\* one category of one stakeholder.
C29_TotalsCoverEligible ==
    /\ \A t \in DOMAIN CALL_PRIORITIES :
          \A s \in Range(CALL_PRIORITIES[t]) :
              /\ s \in DOMAIN STATUS_TO_REPORT_CATEGORY
              /\ STATUS_TO_REPORT_CATEGORY[s] \in Categories
    /\ (Reported /\ Cardinality(Range(stakeholder_list)) = Len(stakeholder_list)) =>
          LET E == Eligible(values)
              turn == Turns(E, stakeholder_list)
          IN  /\ SumSeq([j \in DOMAIN ret.report |-> ret.report[j].total]) = Cardinality(E)
              /\ \A i \in E :
                    Cardinality(Buckets(ret.report, turn[i],
                                        STATUS_TO_REPORT_CATEGORY[StatusOf(values, i)])) = 1
              /\ \A j \in DOMAIN ret.report, c \in Categories :
                    CategoryCount(ret.report[j], c) =
                        Cardinality({i \in E : /\ turn[i] = ret.report[j].name
                                               /\ STATUS_TO_REPORT_CATEGORY[StatusOf(values, i)] = c})

\* three eligible orders, two of them 'Follow up' and 'Abandoned', shared by
\* two stakeholders
C29_Witness ==
    /\ Reported
    /\ Len(ret.report) = 2
    /\ Cardinality(Eligible(values)) = 3
    /\ ret.report[1].total = 2
    /\ ret.report[2].total = 1
    /\ \E j \in DOMAIN ret.report : ret.report[j].follow_up = 1
    /\ \E j \in DOMAIN ret.report : ret.report[j].abandoned = 1

\* C30: in every report main() hands to send_stakeholder_report(), the
\* placeholder report included, the total of each stakeholder is the sum of
\* that stakeholder's six category counts.
C30_SentTotalsAddUp ==
    sent.state = "sent" =>
        \A j \in DOMAIN sent.report_data :
            LET e == sent.report_data[j]
            IN  e.total = e.fresh + e.abandoned + e.invalid_fake + e.cnp
                          + e.follow_up + e.ndr

====
